---- MODULE Spec2Model ----
(***************************************************************************)
(* Model of notebooks/0.attention.ipynb: ScaledDotProductAttention,        *)
(* MultiHeadAttention, EncoderLayer, TransformerEncoder and                *)
(* TransformerClassifier, with the tensor-library operations they call     *)
(* (matmul, transpose, masked_fill, softmax, dropout, view, permute,       *)
(* Linear, LayerNorm) modelled by what they do to shapes and elements.     *)
(*                                                                         *)
(* Numbers are exact rationals <<n, d>> (d > 0, lowest terms); <<0, 0>> is  *)
(* NaN and <<-1, 0>> is -inf.  The exponential inside softmax is computed  *)
(* to base 4 instead of e, so that every weight is a rational: the base    *)
(* changes no sign, no zero, no ordering and no row sum.                    *)
(*                                                                         *)
(* The fields of every record are written in the order TLC keeps them in,  *)
(* so that a record shared by two workers is never reordered in place.     *)
(***************************************************************************)
EXTENDS Integers, Sequences, FiniteSets, TLC

\* ------------------------------------------------------------------ bounds
MaxBatch == 2
MaxSeq == 2
RngStates == 2
MaxLayers == 2

\* ------------------------------------------------------- program constants
\* dropout=0.1 (default of every constructor), in tenths
DropoutTenths == 1
\* the exponent 0.5 of self.d_k ** 0.5, as the root's index
RootIndex == 2

\* the literals of the encoder and classifier demonstration cells
DemoBatch == 1
DemoHeads == 1
DemoSeqLen == 10
DemoDk == 10
DemoDModel == 10
DemoDff == 10
DemoLayers == 1
DemoClasses == 2

\* ------------------------------------------------------------------ numbers
NaN == <<0, 0>>
NegInf == <<-1, 0>>

Abs(n) == IF n < 0 THEN -n ELSE n

RECURSIVE Gcd(_, _)
Gcd(a, b) == IF b = 0 THEN a ELSE Gcd(b, a % b)

Rat(n, d) ==
    LET g == Gcd(Abs(n), Abs(d))
        s == IF d < 0 THEN -1 ELSE 1
    IN  IF d = 0 THEN NaN ELSE <<(s * n) \div g, (s * d) \div g>>

IsNaN(x) == x = NaN
IsFinite(x) == x[2] > 0

RAdd(x, y) ==
    IF IsNaN(x) \/ IsNaN(y) THEN NaN
    ELSE IF x = NegInf \/ y = NegInf THEN NegInf
    ELSE IF x[2] = 1 /\ y[2] = 1 THEN <<x[1] + y[1], 1>>
    ELSE LET l == (x[2] \div Gcd(x[2], y[2])) * y[2]
         IN  Rat(x[1] * (l \div x[2]) + y[1] * (l \div y[2]), l)

RMul(x, y) ==
    IF IsNaN(x) \/ IsNaN(y) THEN NaN
    ELSE IF x = NegInf \/ y = NegInf THEN NaN
    ELSE IF x[2] = 1 /\ y[2] = 1 THEN <<x[1] * y[1], 1>>
    ELSE LET g1 == Gcd(Abs(x[1]), y[2])
             g2 == Gcd(Abs(y[1]), x[2])
         IN  Rat((x[1] \div g1) * (y[1] \div g2), (x[2] \div g2) * (y[2] \div g1))

\* x / y for a finite y > 0; (-inf) / y = -inf
RDiv(x, y) ==
    IF IsNaN(x) \/ IsNaN(y) THEN NaN
    ELSE IF x = NegInf THEN NegInf
    ELSE RMul(x, <<y[2], y[1]>>)

\* x - y in IEEE arithmetic: (-inf) - (-inf) is NaN
RSub(x, y) ==
    IF IsNaN(x) \/ IsNaN(y) THEN NaN
    ELSE IF x = NegInf /\ y = NegInf THEN NaN
    ELSE IF x = NegInf THEN NegInf
    ELSE RAdd(x, <<-y[1], y[2]>>)

RLeq(x, y) ==
    IF x = NegInf THEN TRUE
    ELSE IF y = NegInf THEN FALSE
    ELSE x[1] * y[2] <= y[1] * x[2]

RECURSIVE Pow(_, _)
Pow(b, k) == IF k = 0 THEN 1 ELSE b * Pow(b, k - 1)

\* exp(x), to base 4, of a number x <= 0 whose denominator is 1 or 2
Exp(x) ==
    IF IsNaN(x) THEN NaN
    ELSE IF x = NegInf THEN <<0, 1>>
    ELSE Rat(1, Pow(2, (2 * (-x[1])) \div x[2]))

\* n ** 0.5 for the perfect squares the model uses
Sqrt(n) == CHOOSE r \in 0..n : Pow(r, RootIndex) = n

\* ------------------------------------------------------------------- shapes
\* A shape is a sequence of sizes; ShapeError is the result of an operation
\* the library rejects (RuntimeError).
ShapeError == <<-1>>

RECURSIVE Numel(_)
Numel(s) == IF s = <<>> THEN 1 ELSE Head(s) * Numel(Tail(s))

Front(s) == SubSeq(s, 1, Len(s) - 1)
Last(s) == s[Len(s)]

\* left-pad a shape with ones to n dimensions
RECURSIVE PadTo(_, _)
PadTo(s, n) == IF Len(s) >= n THEN s ELSE PadTo(<<1>> \o s, n)

Max2(a, b) == IF a >= b THEN a ELSE b

\* broadcasting of two shapes (right-aligned; sizes equal or one of them 1)
BroadcastShape(a, b) ==
    LET n == Max2(Len(a), Len(b))
        pa == PadTo(a, n)
        pb == PadTo(b, n)
    IN  IF a = ShapeError \/ b = ShapeError THEN ShapeError
        ELSE IF \A i \in 1..n : pa[i] = pb[i] \/ pa[i] = 1 \/ pb[i] = 1
             THEN [i \in 1..n |-> IF pa[i] = 1 THEN pb[i] ELSE pa[i]] \o <<>>
             ELSE ShapeError

\* x.transpose(-2, -1)
TransposeShape(s) ==
    IF s = ShapeError \/ Len(s) < 2 THEN ShapeError
    ELSE SubSeq(s, 1, Len(s) - 2) \o <<s[Len(s)], s[Len(s) - 1]>>

\* torch.matmul of two arrays of at least two dimensions: the inner sizes
\* must agree and the leading (batch) dimensions broadcast
MatMulShape(a, b) ==
    IF a = ShapeError \/ b = ShapeError \/ Len(a) < 2 \/ Len(b) < 2 THEN ShapeError
    ELSE LET ba == SubSeq(a, 1, Len(a) - 2)
             bb == SubSeq(b, 1, Len(b) - 2)
             bc == BroadcastShape(ba, bb)
         IN  IF a[Len(a)] # b[Len(b) - 1] \/ bc = ShapeError THEN ShapeError
             ELSE bc \o <<a[Len(a) - 1], b[Len(b)]>>

\* x.permute(p)
PermuteShape(s, p) ==
    IF s = ShapeError \/ Len(s) # Len(p) THEN ShapeError
    ELSE [i \in 1..Len(p) |-> s[p[i]]] \o <<>>

\* x.view(target) where at most one size of target is -1 (inferred)
ViewShape(s, target) ==
    LET known == [i \in 1..Len(target) |-> IF target[i] = -1 THEN 1 ELSE target[i]]
        k == Numel(known)
        n == Numel(s)
        hasFree == \E i \in 1..Len(target) : target[i] = -1
    IN  IF s = ShapeError THEN ShapeError
        ELSE IF hasFree
             THEN IF k > 0 /\ n % k = 0
                  THEN [i \in 1..Len(target) |->
                           IF target[i] = -1 THEN n \div k ELSE target[i]] \o <<>>
                  ELSE ShapeError
             ELSE IF k = n THEN target ELSE ShapeError

\* nn.Linear(in, out) applied to an array: the last size must be in
LinearShape(s, in, out) ==
    IF s = ShapeError \/ Len(s) < 1 THEN ShapeError
    ELSE IF Last(s) # in THEN ShapeError
    ELSE Front(s) \o <<out>>

\* nn.LayerNorm(d) applied to an array: the last size must be d
LayerNormShape(s, d) ==
    IF s = ShapeError \/ Len(s) < 1 THEN ShapeError
    ELSE IF Last(s) # d THEN ShapeError
    ELSE s

\* ------------------------------------------------------------------ tensors
\* A tensor is its shape and its elements in row-major (contiguous) order.
Tensor(s, d) == [shape |-> s, data |-> d \o <<>>]
ErrorTensor == Tensor(ShapeError, <<>>)
\* mask=None
NoMask == Tensor(<<>>, <<>>)
IsError(t) == t.shape = ShapeError

\* the 0-based index tuple of the n-th element (n 0-based) of an array of
\* shape s (of at most four dimensions), in row-major order
Unravel(s, n) ==
    CASE Len(s) = 0 -> <<>>
      [] Len(s) = 1 -> <<n>>
      [] Len(s) = 2 -> <<n \div s[2], n % s[2]>>
      [] Len(s) = 3 -> <<n \div (s[2] * s[3]), (n \div s[3]) % s[2], n % s[3]>>
      [] Len(s) = 4 -> <<n \div (s[2] * s[3] * s[4]), (n \div (s[3] * s[4])) % s[2],
                         (n \div s[4]) % s[3], n % s[4]>>

\* the 0-based row-major position of index tuple ix in an array of shape s
Ravel(s, ix) ==
    CASE Len(s) = 0 -> 0
      [] Len(s) = 1 -> ix[1]
      [] Len(s) = 2 -> ix[1] * s[2] + ix[2]
      [] Len(s) = 3 -> (ix[1] * s[2] + ix[2]) * s[3] + ix[3]
      [] Len(s) = 4 -> ((ix[1] * s[2] + ix[2]) * s[3] + ix[3]) * s[4] + ix[4]

At(t, ix) == t.data[Ravel(t.shape, ix) + 1]

\* element of t at index ix of an array t was broadcast to: the trailing
\* indices are t's, and an index into a dimension of size 1 is 0
AtB(t, ix) ==
    LET n == Len(t.shape)
        off == Len(ix) - n
    IN  At(t, [i \in 1..n |-> IF t.shape[i] = 1 THEN 0 ELSE ix[off + i]])

\* the tensor of shape s whose element at index ix is f[ix]
Build(s, f(_)) == Tensor(s, [n \in 1..Numel(s) |-> f(Unravel(s, n - 1))])

\* x.transpose(-2, -1)
Transpose(t) ==
    LET s == TransposeShape(t.shape)
        n == Len(s)
    IN  IF s = ShapeError THEN ErrorTensor
        ELSE Build(s, LAMBDA ix :
                 At(t, [i \in 1..n |-> IF i = n THEN ix[n - 1]
                                       ELSE IF i = n - 1 THEN ix[n] ELSE ix[i]]))

\* x.permute(p).contiguous(): dimension i of the result is dimension p[i] of x
Permute(t, p) ==
    LET s == PermuteShape(t.shape, p)
        n == Len(p)
    IN  IF s = ShapeError THEN ErrorTensor
        ELSE Build(s, LAMBDA ix :
                 At(t, [j \in 1..n |-> ix[CHOOSE i \in 1..n : p[i] = j]]))

\* x.view(target): the same elements, in the same order, under a new shape
View(t, target) ==
    LET s == ViewShape(t.shape, target)
    IN  IF s = ShapeError THEN ErrorTensor ELSE Tensor(s, t.data)

RECURSIVE RSum(_)
RSum(xs) == IF xs = <<>> THEN <<0, 1>> ELSE RAdd(Head(xs), RSum(Tail(xs)))

\* torch.matmul(a, b)
MatMul(a, b) ==
    LET s == MatMulShape(a.shape, b.shape)
        n == Len(s)
        inner == Last(a.shape)
    IN  IF s = ShapeError THEN ErrorTensor
        ELSE Build(s, LAMBDA ix :
                 RSum([k \in 1..inner |->
                     RMul(AtB(a, SubSeq(ix, 1, n - 1) \o <<k - 1>>),
                          AtB(b, SubSeq(ix, 1, n - 2) \o <<k - 1, ix[n]>>))]))

\* elementwise x / c for a number c
DivScalar(t, c) == Tensor(t.shape, [i \in 1..Len(t.data) |-> RDiv(t.data[i], <<c, 1>>)])

\* scores.masked_fill(mask == 0, float('-inf')): both operands broadcast
MaskedFill(t, mask) ==
    LET s == BroadcastShape(t.shape, mask.shape)
    IN  IF s = ShapeError THEN ErrorTensor
        ELSE Build(s, LAMBDA ix :
                 IF AtB(mask, ix) = <<0, 1>> THEN NegInf ELSE AtB(t, ix))

RECURSIVE RMax(_)
RMax(xs) ==
    IF Len(xs) = 1 THEN xs[1]
    ELSE LET m == RMax(Tail(xs))
         IN  IF RLeq(m, Head(xs)) THEN Head(xs) ELSE m

\* softmax of one row, computed as the library does: subtract the row
\* maximum, exponentiate, divide by the sum
SoftmaxRow(row) ==
    LET m == RMax(row)
        e == [i \in 1..Len(row) |-> Exp(RSub(row[i], m))]
        z == RSum(e)
    IN  [i \in 1..Len(row) |-> RDiv(e[i], z)]

\* the row of t along its last axis that contains index ix
RowOf(t, ix) ==
    LET n == Len(t.shape)
    IN  [k \in 1..Last(t.shape) |-> At(t, Front(ix) \o <<k - 1>>)]

\* nn.Softmax(dim=-2): normalisation along the query axis
SoftmaxQueryAxis(t) ==
    LET tt == Transpose(t)
        sm == [r \in 1..Numel(Front(tt.shape)) |->
                 SoftmaxRow(RowOf(tt, Unravel(Front(tt.shape), r - 1) \o <<0>>))]
    IN  Transpose(Tensor(tt.shape, [i \in 1..Numel(tt.shape) |->
                 sm[((i - 1) \div Last(tt.shape)) + 1][((i - 1) % Last(tt.shape)) + 1]]))

\* nn.Softmax(dim=-1)
Softmax(t) ==
    LET n == Len(t.shape)
        sm == [r \in 1..Numel(Front(t.shape)) |->
                 SoftmaxRow(RowOf(t, Unravel(Front(t.shape), r - 1) \o <<0>>))]
    IN  Tensor(t.shape, [i \in 1..Numel(t.shape) |->
                 sm[((i - 1) \div Last(t.shape)) + 1][((i - 1) % Last(t.shape)) + 1]])

\* the generator state after one dropout draw
NextRng(g) == (g + 1) % RngStates

\* whether the Bernoulli draw made in generator state g zeroes element i
Dropped(g, i) == g # 0 /\ (i + g) % 3 = 0

\* the elements of t after the Bernoulli draw of generator state g: zeroed,
\* or multiplied by 1 / (1 - p)
DropElements(t, g) ==
    Tensor(t.shape, [i \in 1..Len(t.data) |->
        IF Dropped(g, i) THEN RMul(t.data[i], <<0, 1>>)
        ELSE RMul(t.data[i], Rat(10, 10 - DropoutTenths))])

\* dropout applied whatever the mode of the module
DropoutAlways(t, train, g) == [out |-> DropElements(t, g),
                               rng |-> NextRng(g)]

\* nn.Dropout(p)(t): the identity in evaluation mode; in training mode it
\* draws from the generator and zeroes or rescales each element.  The result
\* is the array and the generator state left behind.
Dropout(t, train, g) ==
    IF train THEN [out |-> DropElements(t, g),
                   rng |-> NextRng(g)]
    ELSE [out |-> t,
          rng |-> g]

\* ------------------------------------------- ScaledDotProductAttention
\* The result of one forward call: whether it returned or raised, the steps
\* it completed before that, what it returned, and the generator state it left.
Raised(steps, g) ==
    [rng |-> g,
     status |-> "error",
     performed |-> steps,
     output |-> ErrorTensor,
     weights |-> ErrorTensor]

Returned(steps, out, w, g) ==
    [rng |-> g,
     status |-> "ok",
     performed |-> steps,
     output |-> out,
     weights |-> w]

\* ScaledDotProductAttention.__init__(d_k, dropout=0.1)
SDPAInit(d_k) ==
    [module |-> [d_k |-> d_k,
                 kind |-> "sdpa"],
     status |-> "ok",
     created |-> <<"dropout", "softmax">>]

MaskStep(mask) == IF mask = NoMask THEN <<>> ELSE <<"mask">>

\* ScaledDotProductAttention.forward is followed statement by statement; each
\* operator takes what the statements before it have computed.
\* return output, attention_weights
SDPAFromOutput(done, attention_weights, output, g) ==
    IF IsError(output) THEN Raised(done, g)
    ELSE Returned(done \o <<"output">>, output, attention_weights, g)

\* output = torch.matmul(attention_weights, value)
SDPAFromWeights(done, dropped, value) ==
    SDPAFromOutput(done, dropped.out, MatMul(dropped.out, value), dropped.rng)

\* attention_weights = self.softmax(scores), then self.dropout(attention_weights)
SDPAFromMasked(scores, value, mask, train, g) ==
    IF IsError(scores) THEN Raised(<<"scores">>, g)
    ELSE SDPAFromWeights(<<"scores">> \o MaskStep(mask) \o <<"softmax", "dropout">>,
                         Dropout(Softmax(scores), train, g), value)

\* if mask is not None: scores = scores.masked_fill(mask == 0, float('-inf'))
SDPAFromScores(scores, value, mask, train, g) ==
    SDPAFromMasked(IF mask = NoMask THEN scores ELSE MaskedFill(scores, mask),
                   value, mask, train, g)

\* forward with the product left unscaled
SDPAFromProductUnscaled(dk, raw, value, mask, train, g) ==
    IF IsError(raw) THEN Raised(<<>>, g)
    ELSE SDPAFromScores(raw, value, mask, train, g)

\* scores = torch.matmul(query, key.transpose(-2, -1)) / (self.d_k ** 0.5),
\* raw being the product
SDPAFromProduct(dk, raw, value, mask, train, g) ==
    IF IsError(raw) THEN Raised(<<>>, g)
    ELSE SDPAFromScores(DivScalar(raw, Sqrt(dk)), value, mask, train, g)

\* forward with the weights multiplied by key instead of value
SDPAForwardKeyAsValue(dk, query, key, value, mask, train, g) ==
    SDPAFromProduct(dk, MatMul(query, Transpose(key)), key, mask, train, g)

\* ScaledDotProductAttention.forward(query, key, value, mask) of a module
\* built with d_k = dk, in mode train, with the generator in state g
SDPAForward(dk, query, key, value, mask, train, g) ==
    SDPAFromProduct(dk, MatMul(query, Transpose(key)), value, mask, train, g)

\* ------------------------------------------------------ MultiHeadAttention
\* nn.Linear(in, out): its parameters, weight of shape (out, in) and bias of
\* shape (out), are fixed at construction by the seed
WeightElem(seed, in, o, i) ==
    IF i = (o + seed) % in THEN (IF (o + seed) % 3 = 2 THEN <<-1, 1>> ELSE <<1, 1>>)
    ELSE <<0, 1>>

BiasElem(seed, o) == <<(o + seed) % 2, 1>>

LinearParams(in, out, seed) == [in |-> in, out |-> out, seed |-> seed]

\* lin(x) = x W^T + b along the last axis
Linear(t, lin) ==
    LET s == LinearShape(t.shape, lin.in, lin.out)
        n == Len(s)
    IN  IF s = ShapeError THEN ErrorTensor
        ELSE Build(s, LAMBDA ix :
                 RAdd(RSum([i \in 1..lin.in |->
                          RMul(At(t, Front(ix) \o <<i - 1>>),
                               WeightElem(lin.seed, lin.in, ix[n], i - 1))]),
                      BiasElem(lin.seed, ix[n])))

\* MultiHeadAttention.__init__(d_model, num_heads): the steps of the
\* constructor in order; created lists the sub-modules it has built
MHAInitUnchecked(d_model, num_heads, pseed) ==
    [module |-> [d_k |-> d_model \div num_heads,
                 kind |-> "mha",
                 d_model |-> d_model,
                 num_heads |-> num_heads,
                 W_q |-> LinearParams(d_model, d_model, pseed),
                 W_k |-> LinearParams(d_model, d_model, pseed + 1),
                 W_v |-> LinearParams(d_model, d_model, pseed + 2),
                 W_o |-> LinearParams(d_model, d_model, pseed + 3)],
     status |-> "ok",
     created |-> <<"W_q", "W_k", "W_v", "W_o", "attention", "dropout">>]

\* MultiHeadAttention.__init__(d_model, num_heads): the assertion comes first
MHAInit(d_model, num_heads, pseed) ==
    IF num_heads = 0 \/ d_model % num_heads # 0
    THEN [module |-> [kind |-> "none"],
          status |-> "error",
          created |-> <<>>]
    ELSE [module |-> [d_k |-> d_model \div num_heads,
                      kind |-> "mha",
                      d_model |-> d_model,
                      num_heads |-> num_heads,
                      W_q |-> LinearParams(d_model, d_model, pseed),
                      W_k |-> LinearParams(d_model, d_model, pseed + 1),
                      W_v |-> LinearParams(d_model, d_model, pseed + 2),
                      W_o |-> LinearParams(d_model, d_model, pseed + 3)],
          status |-> "ok",
          created |-> <<"W_q", "W_k", "W_v", "W_o", "attention", "dropout">>]

\* split_heads with the sizes of the view in the order (d_k, num_heads)
SplitHeadsSwapped(m, x, batch_size) ==
    Permute(View(x, <<batch_size, -1, m.d_k, m.num_heads>>), <<1, 3, 2, 4>>)

\* MultiHeadAttention.split_heads(x, batch_size)
SplitHeads(m, x, batch_size) ==
    Permute(View(x, <<batch_size, -1, m.num_heads, m.d_k>>), <<1, 3, 2, 4>>)

\* the heads merged without reordering the axes back
CombineHeadsNoPermute(m, x, batch_size) ==
    View(x, <<batch_size, -1, m.d_model>>)

\* output.permute(0, 2, 1, 3).contiguous().view(batch_size, -1, d_model)
CombineHeads(m, x, batch_size) ==
    View(Permute(x, <<1, 3, 2, 4>>), <<batch_size, -1, m.d_model>>)

\* return output, attention_weights; r is the outcome of self.attention
MHAFromOutput(r, output) ==
    IF IsError(output) THEN Raised(<<"project", "split">> \o r.performed, r.rng)
    ELSE Returned(<<"project", "split">> \o r.performed \o <<"combine", "W_o">>,
                  output, r.weights, r.rng)

\* combine the heads and apply W_o to the output of self.attention
MHAFromAttention(m, batch_size, r) ==
    IF r.status = "error" THEN Raised(<<"project", "split">> \o r.performed, r.rng)
    ELSE MHAFromOutput(r, Linear(CombineHeads(m, r.output, batch_size), m.W_o))

\* output, attention_weights = self.attention(query, key, value, mask) on the
\* projected and split query, key and value
MHAFromHeads(m, batch_size, q, k, v, mask, train, g) ==
    IF IsError(q) \/ IsError(k) \/ IsError(v) THEN Raised(<<>>, g)
    ELSE MHAFromAttention(m, batch_size, SDPAForward(m.d_k, q, k, v, mask, train, g))

\* the outcome r with the weights of the first head only
FirstHeadWeights(r) ==
    IF r.status # "ok" THEN r
    ELSE [r EXCEPT !.weights =
              Tensor(<<r.weights.shape[1], r.weights.shape[3], r.weights.shape[4]>>,
                     SubSeq(r.weights.data, 1,
                            r.weights.shape[1] * r.weights.shape[3] * r.weights.shape[4]))]

\* forward returning the weights of the first head only
MHAForwardFirstHead(m, query, key, value, mask, train, g) ==
    FirstHeadWeights(
        MHAFromHeads(m, query.shape[1],
                     SplitHeads(m, Linear(query, m.W_q), query.shape[1]),
                     SplitHeads(m, Linear(key, m.W_k), query.shape[1]),
                     SplitHeads(m, Linear(value, m.W_v), query.shape[1]),
                     mask, train, g))

\* MultiHeadAttention.forward(query, key, value, mask)
MHAForward(m, query, key, value, mask, train, g) ==
    MHAFromHeads(m, query.shape[1],
                 SplitHeads(m, Linear(query, m.W_q), query.shape[1]),
                 SplitHeads(m, Linear(key, m.W_k), query.shape[1]),
                 SplitHeads(m, Linear(value, m.W_v), query.shape[1]),
                 mask, train, g)

\* ---------------------------------- EncoderLayer, TransformerEncoder, classifier
\* Above MultiHeadAttention the arrays are followed by shape, and their
\* contents by the expression that computes them: a term names an operation,
\* the parameters it uses (the layer's index, or the generator state a dropout
\* mask was drawn in) and the terms it is applied to.
Term(op, id, kids) == [op |-> op, id |-> id, kids |-> kids]
Sym(s, t) == [shape |-> s, data |-> <<t>>]
NoneTerm == Term("none", 0, <<>>)

\* nn.Dropout on a term
DropoutTerm(t, train, g) ==
    IF train THEN [out |-> Term("dropout", g, <<t>>),
                   rng |-> NextRng(g)]
    ELSE [out |-> t,
          rng |-> g]

MHAShapeKeepHeads(l, query, key, value, mask) ==
    LET batch_size == query[1]
        D == l.d_model
        split(x) == PermuteShape(ViewShape(LinearShape(x, D, D),
                                           <<batch_size, -1, l.num_heads, l.d_k>>),
                                 <<1, 3, 2, 4>>)
        scores == MatMulShape(split(query), TransposeShape(split(key)))
        masked == IF mask = <<>> THEN scores ELSE BroadcastShape(scores, mask)
        out == MatMulShape(masked, split(value))
    IN  [output |-> LinearShape(out, l.d_k, D),
         weights |-> masked]

\* the shapes MultiHeadAttention.forward computes: of the attention weights
\* and of the returned output
MHAShape(l, query, key, value, mask) ==
    LET batch_size == query[1]
        D == l.d_model
        split(x) == PermuteShape(ViewShape(LinearShape(x, D, D),
                                           <<batch_size, -1, l.num_heads, l.d_k>>),
                                 <<1, 3, 2, 4>>)
        scores == MatMulShape(split(query), TransposeShape(split(key)))
        masked == IF mask = <<>> THEN scores ELSE BroadcastShape(scores, mask)
        out == MatMulShape(masked, split(value))
        combined == ViewShape(PermuteShape(out, <<1, 3, 2, 4>>), <<batch_size, -1, D>>)
    IN  [output |-> LinearShape(combined, D, D),
         weights |-> masked]

\* EncoderLayer.__init__(d_model, num_heads, d_ff)
EncoderLayerInit(d_model, num_heads, d_ff) ==
    LET mha == MHAInit(d_model, num_heads, 0)
        l == [d_k |-> mha.module.d_k,
              d_model |-> d_model,
              num_heads |-> num_heads,
              d_ff |-> d_ff]
    IN  IF mha.status = "error"
        THEN [module |-> [kind |-> "none"],
              status |-> "error",
              created |-> mha.created]
        ELSE [module |-> [layers |-> <<l>>,
                          kind |-> "layer",
                          d_model |-> d_model,
                          num_heads |-> num_heads,
                          d_ff |-> d_ff,
                          num_classes |-> 0],
              status |-> "ok",
              created |-> mha.created \o
                          <<"feed_forward.0", "feed_forward.2", "norm1", "norm2", "dropout">>]

\* [EncoderLayer(d_model, num_heads, d_ff, dropout) for _ in range(num_layers)]
RECURSIVE BuildLayers(_, _, _, _)
BuildLayers(d_model, num_heads, d_ff, n) ==
    IF n <= 0 THEN [layers |-> <<>>,
                    status |-> "ok",
                    created |-> <<>>]
    ELSE LET first == EncoderLayerInit(d_model, num_heads, d_ff)
             rest == BuildLayers(d_model, num_heads, d_ff, n - 1)
         IN  IF first.status = "error"
             THEN [layers |-> <<>>,
                   status |-> "error",
                   created |-> first.created]
             ELSE [layers |-> first.module.layers \o rest.layers,
                   status |-> rest.status,
                   created |-> first.created \o rest.created]

\* TransformerEncoder.__init__(d_model, num_heads, d_ff, num_layers)
TransformerEncoderInit(d_model, num_heads, d_ff, num_layers) ==
    LET b == BuildLayers(d_model, num_heads, d_ff, num_layers)
    IN  IF b.status = "error"
        THEN [module |-> [kind |-> "none"],
              status |-> "error",
              created |-> b.created]
        ELSE [module |-> [layers |-> b.layers,
                          kind |-> "encoder",
                          d_model |-> d_model,
                          num_heads |-> num_heads,
                          d_ff |-> d_ff,
                          num_classes |-> 0],
              status |-> "ok",
              created |-> b.created]

\* TransformerClassifier.__init__(d_model, num_heads, d_ff, num_layers, num_classes)
TransformerClassifierInit(d_model, num_heads, d_ff, num_layers, num_classes) ==
    LET e == TransformerEncoderInit(d_model, num_heads, d_ff, num_layers)
    IN  IF e.status = "error" THEN e
        ELSE [module |-> [layers |-> e.module.layers,
                          kind |-> "classifier",
                          d_model |-> d_model,
                          num_heads |-> num_heads,
                          d_ff |-> d_ff,
                          num_classes |-> num_classes],
              status |-> "ok",
              created |-> e.created \o <<"classifier">>]

\* a forward call above MultiHeadAttention that raised / returned
RaisedSym(steps, g) ==
    [rng |-> g,
     status |-> "error",
     performed |-> steps,
     output |-> ErrorTensor,
     weights |-> NoMask]

ReturnedSym(steps, out, g) ==
    [rng |-> g,
     status |-> "ok",
     performed |-> steps,
     output |-> out,
     weights |-> NoMask]

\* EncoderLayer.forward is followed statement by statement; each operator takes
\* the shapes, terms and generator state the statements before it have left.
MaskTerm(mask) == IF mask = NoMask THEN NoneTerm ELSE mask.data[1]

\* return self.norm2(x + self.dropout(feed_forward_output)) of shape s2
LayerFromNorm2(idx, s2, out, g) ==
    IF s2 = ShapeError THEN RaisedSym(<<>>, g)
    ELSE ReturnedSym(<<idx>>, Sym(s2, out), g)

\* the second residual: x is the array of shape s1 left by norm1, x1 its term,
\* f the shape of feed_forward_output and d2 its term after dropout
LayerFromFeedForward(l, idx, s1, x1, f, d2) ==
    LayerFromNorm2(idx, LayerNormShape(BroadcastShape(s1, f), l.d_model),
                   Term("norm2", idx, <<Term("add", idx, <<x1, d2.out>>)>>), d2.rng)

\* feed_forward_output = self.feed_forward(x) on the array left by norm1
LayerFromNorm1(l, idx, s1, x1, train, g) ==
    IF s1 = ShapeError THEN RaisedSym(<<>>, g)
    ELSE LayerFromFeedForward(l, idx, s1, x1,
             LinearShape(LinearShape(s1, l.d_model, l.d_ff), l.d_ff, l.d_model),
             DropoutTerm(Term("feed_forward", idx, <<x1>>), train, g))

\* the layer going on with its input in place of the array left by norm1
LayerFromAttentionOnInput(l, idx, x, attention_shape, d1, train) ==
    LayerFromNorm1(l, idx,
                   LayerNormShape(BroadcastShape(x.shape, attention_shape), l.d_model),
                   x.data[1], train, d1.rng)

\* x = self.norm1(x + self.dropout(attention_output)); d1 is the term of
\* attention_output after dropout
LayerFromAttention(l, idx, x, attention_shape, d1, train) ==
    LayerFromNorm1(l, idx,
                   LayerNormShape(BroadcastShape(x.shape, attention_shape), l.d_model),
                   Term("norm1", idx, <<Term("add", idx, <<x.data[1], d1.out>>)>>),
                   train, d1.rng)

\* attention_output, _ = self.multihead_attention(x, x, x, mask): a holds the
\* shapes it computes, w the term of the attention weights after their dropout
LayerFromWeights(l, idx, x, a, w, train, g) ==
    IF a.weights = ShapeError THEN RaisedSym(<<>>, g)
    ELSE IF a.output = ShapeError THEN RaisedSym(<<>>, w.rng)
    ELSE LayerFromAttention(l, idx, x, a.output,
             DropoutTerm(Term("multihead_attention", idx, <<w.out, x.data[1]>>),
                         train, w.rng),
             train)

\* EncoderLayer.forward(x, mask) of layer number idx
EncoderLayerForward(l, idx, x, mask, train, g) ==
    LayerFromWeights(l, idx, x,
        MHAShape(l, x.shape, x.shape, x.shape, mask.shape),
        DropoutTerm(Term("softmax", idx, <<x.data[1], x.data[1], MaskTerm(mask)>>),
                    train, g),
        train, g)

\* the steps of the layers before put in front of those of the layers after
Prepend(steps, rest) == [rest EXCEPT !.performed = steps \o rest.performed]

\* for layer in self.layers: x = layer(x, mask), from layer number i on;
\* NextLayer goes on from the outcome r of layer number i
RECURSIVE RunLayers(_, _, _, _, _, _)
RECURSIVE NextLayer(_, _, _, _, _)
\* the loop leaving after the first layer
RunLayersFirstOnly(layers, i, x, mask, train, g) ==
    IF i > Len(layers) \/ i > 1 THEN ReturnedSym(<<>>, x, g)
    ELSE NextLayer(layers, i, mask, train,
                   EncoderLayerForward(layers[i], i, x, mask, train, g))

RunLayers(layers, i, x, mask, train, g) ==
    IF i > Len(layers) THEN ReturnedSym(<<>>, x, g)
    ELSE NextLayer(layers, i, mask, train,
                   EncoderLayerForward(layers[i], i, x, mask, train, g))

NextLayer(layers, i, mask, train, r) ==
    IF r.status = "error" THEN r
    ELSE Prepend(r.performed, RunLayers(layers, i + 1, r.output, mask, train, r.rng))

\* TransformerEncoder.forward(x, mask)
TransformerEncoderForward(m, x, mask, train, g) ==
    RunLayers(m.layers, 1, x, mask, train, g)

\* self.classifier(encoder_output), e being the outcome of self.encoder(x, mask)
ClassifierHead(m, e) ==
    LET s == LinearShape(e.output.shape, m.d_model, m.num_classes)
    IN  IF e.status = "error" THEN e
        ELSE IF s = ShapeError THEN RaisedSym(e.performed, e.rng)
        ELSE ReturnedSym(e.performed,
                         Sym(s, Term("classifier", 0, <<e.output.data[1]>>)), e.rng)

\* TransformerClassifier.forward(x, mask)
TransformerClassifierForward(m, x, mask, train, g) ==
    ClassifierHead(m, TransformerEncoderForward(m, x, mask, train, g))

\* forward of the module m, whatever its class
ModuleForward(m, x, mask, train, g) ==
    CASE m.kind = "layer" -> EncoderLayerForward(m.layers[1], 1, x, mask, train, g)
      [] m.kind = "encoder" -> TransformerEncoderForward(m, x, mask, train, g)
      [] m.kind = "classifier" -> TransformerClassifierForward(m, x, mask, train, g)

\* -------------------------------------------------------------------- state
VARIABLES
    module,     \* the module under test: its kind and constructor-set fields
    training,   \* nn.Module.training of the module
    rng,        \* state of the library's global random generator
    args,       \* the caller's arrays: query, key, value, mask
    last,       \* the latest forward call on args: mode, generator state, result
    built       \* the latest constructor call: class, arguments, outcome

vars == <<module, training, rng, args, last, built>>

NoModule == [kind |-> "none"]

NoBuild ==
    [status |-> "none",
     created |-> <<>>,
     d_model |-> 0,
     num_heads |-> 0,
     num_layers |-> 0,
     class |-> "none",
     cell |-> "none"]

\* the record of a constructor call of class c whose outcome is r
Built(c, d_model, num_heads, num_layers, r, cell) ==
    [status |-> r.status,
     created |-> r.created,
     d_model |-> d_model,
     num_heads |-> num_heads,
     num_layers |-> num_layers,
     class |-> c,
     cell |-> cell]

NoCall ==
    [train |-> FALSE,
     rng |-> 0,
     status |-> "none",
     performed |-> <<>>,
     output |-> ErrorTensor,
     weights |-> ErrorTensor,
     rng0 |-> 0,
     again |-> FALSE]

\* a call's result together with the mode and generator state it ran in, and
\* whether the module had been called before
Call(r, train, g) ==
    [train |-> train,
     rng |-> r.rng,
     status |-> r.status,
     performed |-> r.performed,
     output |-> r.output,
     weights |-> r.weights,
     rng0 |-> g,
     again |-> last.status # "none"]

\* ---------------------------------------------------------------- inputs
\* torch.rand(shape): an array fixed by its shape and the seed; elements are
\* drawn from {-1, 0, 1}
RandElem(seed, i) == <<((i * (seed + 2) + (i \div 3) + seed) % 3) - 1, 1>>
Rand(s, seed) == Tensor(s, [i \in 1..Numel(s) |-> RandElem(seed, i)])

\* a padding mask of shape (batch, 1, 1, seq_len_k): batch element 0 keeps
\* its first m keys, every other batch element keeps its first lk - m + 1
ValidLen(bi, lk, m) == IF bi = 0 THEN m ELSE lk - m + 1
PadMask(b, lk, m) ==
    Build(<<b, 1, 1, lk>>, LAMBDA ix :
        IF ix[4] < ValidLen(ix[1], lk, m) THEN <<1, 1>> ELSE <<0, 1>>)

\* (batch, heads) pairs, (d_k, d_v, seed) variants of the arrays, query
\* lengths, mask choices for a key length, and the d_k values a module is
\* built with
BatchHeads == {<<b, 1>> : b \in 1..MaxBatch} \cup {<<1, 2>>}
Variants == {<<1, 2, 0>>, <<4, 1, 1>>}
QueryLens == {1, MaxSeq}
MaskChoices(lk) == {-1, 0, 1, lk}
DkValues == {1, 4}

SDPAArgs(b, h, lq, lk, lv, dq, dk, dv, seed, m) ==
    [mask  |-> IF m < 0 THEN NoMask ELSE PadMask(b, lk, m),
     value |-> Rand(<<b, h, lv, dv>>, seed + 2),
     query |-> Rand(<<b, h, lq, dq>>, seed),
     key   |-> Rand(<<b, h, lk, dk>>, seed + 1)]

\* arrays of the documented shapes, with and without a mask
ValidArgs ==
    UNION { { SDPAArgs(bh[1], bh[2], lq, lk, lk, v[1], v[1], v[2], v[3], m) :
                bh \in BatchHeads, lq \in QueryLens, v \in Variants,
                m \in MaskChoices(lk) } : lk \in 1..MaxSeq }

\* arrays whose query/key feature sizes differ, or whose key/value lengths differ
MismatchedArgs ==
    { SDPAArgs(1, 1, 1, lk, lk + x[2], v[1], v[1] + x[1], v[2], v[3], m) :
        lk \in 1..MaxSeq, v \in Variants,
        x \in {<<1, 0>>, <<0, 1>>, <<1, 1>>}, m \in {-1, 1} }

SDPAArgSpace == ValidArgs \cup MismatchedArgs

\* ------------------------------------------------ ScaledDotProductAttention
\* scaled_dotproduct_attention = ScaledDotProductAttention(d_k): a module is
\* in training mode when built
InitAttn ==
    \E dk \in DkValues :
        /\ module = SDPAInit(dk).module
        /\ built = Built("sdpa", dk, 1, 0, SDPAInit(dk), "none")
        /\ training = TRUE
        /\ rng \in 0..(RngStates - 1)
        /\ args \in SDPAArgSpace
        /\ last = NoCall

\* output, attention_weights = module.forward(query, key, value, mask)
AttnForward ==
    /\ module.kind = "sdpa"
    /\ \E r \in {SDPAForward(module.d_k, args.query, args.key, args.value,
                             args.mask, training, rng)} :
           /\ last' = Call(r, training, rng)
           /\ rng' = r.rng
    /\ UNCHANGED <<module, training, args, built>>

\* module.eval()
Eval ==
    /\ module.kind # "none"
    /\ training
    /\ training' = FALSE
    /\ UNCHANGED <<module, rng, args, last, built>>

NextAttn == AttnForward \/ Eval

SpecAttn == InitAttn /\ [][NextAttn]_vars

\* ------------------------------------------------------- MultiHeadAttention
\* (d_model, num_heads, seed) of the modules built and their input arrays
MHAConfigs == {<<1, 1, 0>>, <<4, 1, 1>>, <<4, 4, 0>>, <<8, 2, 1>>}

MHAArgs(b, lq, lk, d, seed, m) ==
    [mask  |-> IF m < 0 THEN NoMask ELSE PadMask(b, lk, m),
     value |-> Rand(<<b, lk, d>>, seed + 2),
     query |-> Rand(<<b, lq, d>>, seed),
     key   |-> Rand(<<b, lk, d>>, seed + 1)]

\* multihead_attention = MultiHeadAttention(d_model, num_heads), and the
\* caller's query (batch, seq_len_q, d_model), key and value (batch, seq_len_k,
\* d_model) and optional mask (batch, 1, 1, seq_len_k)
InitMHA ==
    \E c \in MHAConfigs :
        /\ module = MHAInit(c[1], c[2], c[3]).module
        /\ built = Built("mha", c[1], c[2], 0, MHAInit(c[1], c[2], c[3]), "none")
        /\ training = TRUE
        /\ rng \in 0..(RngStates - 1)
        /\ args \in UNION { { MHAArgs(b, lq, lk, c[1], c[3], m) :
                                 b \in 1..MaxBatch, lq \in QueryLens,
                                 m \in MaskChoices(lk) } : lk \in 1..MaxSeq }
        /\ last = NoCall

\* output, attention_weights = multihead_attention.forward(query, key, value, mask)
MHAForwardCall ==
    /\ module.kind = "mha"
    /\ \E r \in {MHAForward(module, args.query, args.key, args.value,
                            args.mask, training, rng)} :
           /\ last' = Call(r, training, rng)
           /\ rng' = r.rng
    /\ UNCHANGED <<module, training, args, built>>

NextMHA == MHAForwardCall \/ Eval

SpecMHA == InitMHA /\ [][NextMHA]_vars

\* ------------------------------- EncoderLayer, TransformerEncoder, classifier
\* torch.rand(shape) followed by shape only
SymInput(s, seed) == Sym(s, Term("input", seed, <<>>))

\* the (d_model, num_heads) pairs constructors are called with
EncConfigs == {<<4, 1>>, <<4, 2>>, <<4, 3>>, <<10, 3>>}
FFDim == 8
NumClasses == 3

\* shapes of the array x passed to forward: the documented (batch, seq_len,
\* d_model), a four-dimensional (batch, heads, seq_len, d_k) as in the encoder
\* demonstration, a two-dimensional (seq_len, d_model), and a wrong feature size
XShapes ==
    {<<b, l, 4>> : b \in 1..MaxBatch, l \in 1..MaxSeq}
      \cup {<<b, h, l, 4>> : b \in 1..MaxBatch, h \in {1, 2}, l \in 1..MaxSeq}
      \cup {<<l, 4>> : l \in 1..MaxSeq}
      \cup {<<1, l, 5>> : l \in 1..MaxSeq}

\* mask=None, or a mask of the documented shape (batch, 1, 1, seq_len)
XMasks(s) == {NoMask, Sym(<<s[1], 1, 1, s[Len(s) - 1]>>, Term("mask", 0, <<>>))}

EncArgs(x, mask) == [mask |-> mask,
                     value |-> x,
                     query |-> x,
                     key |-> x]

\* nothing built yet; the caller's array x and mask are bound
InitEnc ==
    /\ module = NoModule
    /\ built = NoBuild
    /\ training = TRUE
    /\ rng \in 0..(RngStates - 1)
    /\ \E s \in XShapes : \E m \in XMasks(s) : args = EncArgs(SymInput(s, 0), m)
    /\ last = NoCall

\* the outcome r of a constructor call: the module is bound only if it returned
Construct(c, d_model, num_heads, num_layers, r) ==
    /\ module.kind = "none"
    /\ built' = Built(c, d_model, num_heads, num_layers, r, "none")
    /\ module' = r.module
    /\ UNCHANGED <<training, rng, args, last>>

\* MultiHeadAttention(d_model, num_heads)
BuildMHA ==
    \E c \in EncConfigs :
        Construct("mha", c[1], c[2], 0, MHAInit(c[1], c[2], 0))

\* EncoderLayer(d_model, num_heads, d_ff)
BuildLayer ==
    \E c \in EncConfigs :
        Construct("layer", c[1], c[2], 1, EncoderLayerInit(c[1], c[2], FFDim))

\* TransformerEncoder(d_model, num_heads, d_ff, num_layers)
BuildEncoder ==
    \E c \in EncConfigs, n \in 0..MaxLayers :
        Construct("encoder", c[1], c[2], n, TransformerEncoderInit(c[1], c[2], FFDim, n))

\* TransformerClassifier(d_model, num_heads, d_ff, num_layers, num_classes)
BuildClassifier ==
    \E c \in EncConfigs, n \in 0..MaxLayers :
        Construct("classifier", c[1], c[2], n,
                  TransformerClassifierInit(c[1], c[2], FFDim, n, NumClasses))

\* output = module.forward(x, mask)
EncForward ==
    /\ module.kind \in {"layer", "encoder", "classifier"}
    /\ \E r \in {ModuleForward(module, args.query, args.mask, training, rng)} :
           /\ last' = Call(r, training, rng)
           /\ rng' = r.rng
    /\ UNCHANGED <<module, training, args, built>>

\* the encoder demonstration cell: query = torch.rand(batch_size, num_heads,
\* seq_leng_q, d_k); encoder = TransformerEncoder(d_model, num_heads, d_ff,
\* num_layers=1); output = encoder.forward(query)
DemoEncoderCell ==
    /\ module.kind = "none" /\ built = NoBuild
    /\ \E c \in {TransformerEncoderInit(DemoDModel, DemoHeads, DemoDff, DemoLayers)},
          x \in {SymInput(<<DemoBatch, DemoHeads, DemoSeqLen, DemoDk>>, 0)} :
           /\ built' = Built("encoder", DemoDModel, DemoHeads, DemoLayers, c, "encoder")
           /\ module' = c.module
           /\ args' = EncArgs(x, NoMask)
           /\ \E r \in {ModuleForward(c.module, x, NoMask, training, rng)} :
                  /\ last' = Call(r, training, rng)
                  /\ rng' = r.rng
    /\ UNCHANGED training

\* the classifier demonstration cell: imput_tensor = torch.rand(batch_size,
\* seq_leng_q, d_model); model = TransformerClassifier(d_model, num_heads, d_ff,
\* num_layers=1, num_classes=2); output = model.forward(imput_tensor)
DemoClassifierCell ==
    /\ module.kind = "none" /\ built = NoBuild
    /\ \E c \in {TransformerClassifierInit(DemoDModel, DemoHeads, DemoDff,
                                           DemoLayers, DemoClasses)},
          x \in {SymInput(<<DemoBatch, DemoSeqLen, DemoDModel>>, 0)} :
           /\ built' = Built("classifier", DemoDModel, DemoHeads, DemoLayers, c,
                             "classifier")
           /\ module' = c.module
           /\ args' = EncArgs(x, NoMask)
           /\ \E r \in {ModuleForward(c.module, x, NoMask, training, rng)} :
                  /\ last' = Call(r, training, rng)
                  /\ rng' = r.rng
    /\ UNCHANGED training

NextEnc ==
    \/ BuildMHA \/ BuildLayer \/ BuildEncoder \/ BuildClassifier
    \/ EncForward \/ Eval \/ DemoEncoderCell \/ DemoClassifierCell

SpecEnc == InitEnc /\ [][NextEnc]_vars

\* ----------------------------------------------------------- every component
\* an instance of any of the five classes and the calls on it; the
\* MultiHeadAttention instances called are those of InitMHA, whose arguments
\* carry numbers
Init == InitAttn \/ InitMHA \/ InitEnc

Next ==
    \/ AttnForward \/ MHAForwardCall \/ EncForward \/ Eval
    \/ BuildLayer \/ BuildEncoder \/ BuildClassifier
    \/ DemoEncoderCell \/ DemoClassifierCell

Spec == Init /\ [][Next]_vars

\* ------------------------------------------------- properties of SDPA calls
Zero == <<0, 1>>
One == <<1, 1>>

\* the latest call was made on a ScaledDotProductAttention and returned
AttnReturned == module.kind = "sdpa" /\ last.status = "ok"

\* index tuples of the rows (along the key axis) of the returned weights
WeightRows == {Unravel(last.weights.shape, i - 1) : i \in 1..Numel(last.weights.shape)}

\* the mask leaves key position ix[4] valid for batch element ix[1]
KeyValid(ix) == args.mask = NoMask \/ AtB(args.mask, ix) # Zero

\* the row of ix has at least one key the mask leaves valid
RowHasValidKey(ix) ==
    \E k \in 0..(Last(last.weights.shape) - 1) : KeyValid(Front(ix) \o <<k>>)

NonNegative(x) == IsFinite(x) /\ x[1] >= 0

RowIsDistribution(ix) ==
    LET row == RowOf(last.weights, ix)
    IN  /\ \A k \in 1..Len(row) : NonNegative(row[k])
        /\ RSum(row) = One

RowIsNonNegative(ix) ==
    \A k \in 1..Last(last.weights.shape) : NonNegative(RowOf(last.weights, ix)[k])

\* C1 as stated: every row of the weights returned by any call, with or
\* without a mask, is non-negative and sums to 1.
C1_EveryRowSumsToOne ==
    AttnReturned => \A ix \in WeightRows : RowIsDistribution(ix)

\* C1 amended: in evaluation mode every row of the returned weights that has
\* at least one key the mask leaves valid is non-negative and sums to 1; in
\* training mode such a row is still non-negative (dropout zeroes entries or
\* multiplies them by 1/(1-p), so its sum need not be 1).
C1_RowsSumToOneInEval ==
    AttnReturned =>
        \A ix \in WeightRows :
            RowHasValidKey(ix) =>
                /\ RowIsNonNegative(ix)
                /\ ~last.train => RowIsDistribution(ix)

\* an evaluation-mode call has returned whose mask hides one key of a row
\* and leaves another one valid, and which has a row that spreads its weight
\* over two keys
C1_Witness ==
    /\ AttnReturned /\ ~last.train /\ args.mask # NoMask
    /\ \E ix \in WeightRows : ~KeyValid(ix) /\ RowHasValidKey(ix)
    /\ \E ix \in WeightRows :
          /\ NonNegative(At(last.weights, ix))
          /\ At(last.weights, ix) # Zero /\ At(last.weights, ix) # One

\* C2: with a mask, every key position the mask marks invalid has exactly
\* zero weight, in every batch element, head and query row.
C2_MaskedKeysHaveZeroWeight ==
    (AttnReturned /\ args.mask # NoMask) =>
        \A ix \in WeightRows : ~KeyValid(ix) => At(last.weights, ix) = Zero

\* the shapes of the caller's arrays
ArgBatch == args.query.shape[1]
ArgHeads == args.query.shape[2]
ArgLenQ == args.query.shape[3]
ArgLenK == args.key.shape[3]
ArgLenV == args.value.shape[3]
ArgDimQ == args.query.shape[4]
ArgDimK == args.key.shape[4]
ArgDimV == args.value.shape[4]

AttnCalled == module.kind = "sdpa" /\ last.status # "none"
ShapesMismatch == ArgDimQ # ArgDimK \/ ArgLenK # ArgLenV

\* C4 as stated: a call with mismatched shapes is rejected before any step
\* of the computation is performed.
C4_RejectedBeforeAnyStep ==
    (AttnCalled /\ ShapesMismatch) =>
        last.status = "error" /\ last.performed = <<>>

\* C4 amended: a call with mismatched shapes never returns an output; when
\* the query/key feature sizes differ it is rejected by the score product,
\* before any step is performed; when only the key/value lengths differ it
\* is rejected by the final product, after scores, masking, softmax and
\* dropout have been performed (in training mode the generator has advanced).
C4_RejectedByTheProducts ==
    (AttnCalled /\ ShapesMismatch) =>
        /\ last.status = "error"
        /\ IsError(last.output) /\ IsError(last.weights)
        /\ ArgDimQ # ArgDimK =>
              last.performed = <<>> /\ last.rng = last.rng0
        /\ ArgDimQ = ArgDimK =>
              /\ last.performed =
                    <<"scores">> \o MaskStep(args.mask) \o <<"softmax", "dropout">>
              /\ last.rng = (IF last.train THEN NextRng(last.rng0) ELSE last.rng0)

\* a training-mode call whose key and value lengths differ has raised after
\* drawing its dropout mask
C4_Witness ==
    /\ AttnCalled /\ ArgDimQ = ArgDimK /\ ArgLenK # ArgLenV
    /\ last.train /\ last.status = "error" /\ last.rng # last.rng0
    /\ args.mask # NoMask

\* C5: for query (batch, heads, query_length, d_k), key (batch, heads,
\* key_length, d_k) and value (batch, heads, key_length, d_v) the call returns
\* an output of shape (batch, heads, query_length, d_v) and weights of shape
\* (batch, heads, query_length, key_length).
C5_OutputShapes ==
    (AttnCalled /\ ~ShapesMismatch) =>
        /\ last.status = "ok"
        /\ last.output.shape = <<ArgBatch, ArgHeads, ArgLenQ, ArgDimV>>
        /\ last.weights.shape = <<ArgBatch, ArgHeads, ArgLenQ, ArgLenK>>
        /\ Len(last.output.data) = ArgBatch * ArgHeads * ArgLenQ * ArgDimV
        /\ Len(last.weights.data) = ArgBatch * ArgHeads * ArgLenQ * ArgLenK

\* a call has returned whose four sizes are pairwise told apart: d_v differs
\* from d_k and the query length from the key length
C5_Witness ==
    /\ AttnReturned /\ ArgDimV # ArgDimK /\ ArgLenQ # ArgLenK
    /\ ArgBatch > 1 /\ args.mask # NoMask

\* ------------------------------------------------- properties of MHA calls
MHACalled == module.kind = "mha" /\ last.status # "none"
MHAReturned == module.kind = "mha" /\ last.status = "ok"

\* C6: for query (batch, seq_len_q, d_model) and key/value (batch, seq_len_k,
\* d_model) MultiHeadAttention.forward returns an output of shape (batch,
\* seq_len_q, d_model) and weights of shape (batch, num_heads, seq_len_q,
\* seq_len_k); the output is as long as the query.
C6_MHAShapes ==
    MHACalled =>
        /\ last.status = "ok"
        /\ last.output.shape =
              <<args.query.shape[1], args.query.shape[2], module.d_model>>
        /\ last.weights.shape =
              <<args.query.shape[1], module.num_heads,
                args.query.shape[2], args.key.shape[2]>>
        /\ Len(last.output.data) = Numel(args.query.shape)
        /\ Len(last.weights.data) =
              args.query.shape[1] * module.num_heads
                 * args.query.shape[2] * args.key.shape[2]

\* a call with several heads, several batch elements and a query shorter or
\* longer than the key has returned
C6_Witness ==
    /\ MHAReturned /\ module.num_heads > 1 /\ args.query.shape[1] > 1
    /\ args.query.shape[2] # args.key.shape[2]
    /\ module.d_k > 1

\* x.unsqueeze(1) of a (batch, seq, d) array, and its inverse
Unsqueeze1(t) == Tensor(<<t.shape[1], 1, t.shape[2], t.shape[3]>>, t.data)
Squeeze1(t) == Tensor(<<t.shape[1], t.shape[3], t.shape[4]>>, t.data)

\* the output projection of what that attention returned, and its weights
SingleHeadResult(m, r) ==
    [output |-> Linear(Squeeze1(r.output), m.W_o), weights |-> r.weights]

\* projections, one Scaled Dot-Product Attention with d_k = d_model on the
\* projected arrays under a singleton head axis, output projection
SingleHeadReference(m, query, key, value, mask, train, g) ==
    SingleHeadResult(m, SDPAForward(m.d_model,
                                    Unsqueeze1(Linear(query, m.W_q)),
                                    Unsqueeze1(Linear(key, m.W_k)),
                                    Unsqueeze1(Linear(value, m.W_v)), mask, train, g))

\* C9: with one head, MultiHeadAttention.forward returns the output and the
\* weights of projections + one Scaled Dot-Product Attention with d_k =
\* d_model + output projection.
C9_OneHeadIsSDPA ==
    (MHAReturned /\ module.num_heads = 1) =>
        \E ref \in {SingleHeadReference(module, args.query, args.key, args.value,
                                        args.mask, last.train, last.rng0)} :
            last.output = ref.output /\ last.weights = ref.weights

\* a one-head call on arrays with more than one feature, more than one
\* position and a mask has returned
C9_Witness ==
    /\ MHAReturned /\ module.num_heads = 1 /\ module.d_model > 1
    /\ args.query.shape[2] > 1 /\ args.key.shape[2] > 1 /\ args.mask # NoMask
    /\ \E i \in 1..Len(last.output.data) : last.output.data[i] \notin {Zero, One, NaN}

\* ------------------------------------------------ properties of construction
\* the latest constructor call had to construct a MultiHeadAttention
ConstructsMHA ==
    \/ built.class \in {"mha", "layer"}
    \/ built.class \in {"encoder", "classifier"} /\ built.num_layers >= 1

Indivisible == built.d_model % built.num_heads # 0

\* C3: a constructor call that constructs multi-head attention (directly, or
\* through EncoderLayer, TransformerEncoder or TransformerClassifier) with a
\* d_model that num_heads does not divide raises before any sub-module is
\* created; no module is bound, so no forward call has run or can run on it.
C3_IndivisibleRejected ==
    (ConstructsMHA /\ Indivisible) =>
        /\ built.status = "error"
        /\ built.created = <<>>
        /\ module.kind = "none"
        /\ last = NoCall

\* a classifier with at least one layer was asked for with d_model=10 and
\* num_heads=3, and the call raised
C3_Witness ==
    /\ built.class = "classifier" /\ built.num_layers >= 1
    /\ built.d_model = DemoDModel /\ built.num_heads = 3
    /\ built.status = "error"

\* ------------------------------------- properties of the encoder's forward
\* forward of an EncoderLayer or a TransformerEncoder has returned
EncReturned == module.kind \in {"layer", "encoder"} /\ last.status = "ok"

\* C7 as stated: whatever input EncoderLayer.forward or
\* TransformerEncoder.forward accepts, the returned array has the input's shape.
C7_ShapePreserved == EncReturned => last.output.shape = args.query.shape

\* C7, amended: for an input of the documented three dimensions (batch_size,
\* seq_len, d_model), with or without a mask, the array returned by
\* EncoderLayer.forward, and by a TransformerEncoder of any depth, has the
\* input's shape.
C7_ShapePreservedFor3D ==
    (EncReturned /\ Len(args.query.shape) = 3) =>
        last.output.shape = args.query.shape

\* an encoder of at least two layers has returned for a masked three-dimensional
\* input of more than one batch element and more than one position
C7_Witness ==
    /\ EncReturned /\ module.kind = "encoder" /\ Len(module.layers) >= 2
    /\ Len(args.query.shape) = 3 /\ args.mask # NoMask
    /\ args.query.shape[1] > 1 /\ args.query.shape[2] > 1
    /\ last.performed = <<1, 2>>

\* C8: in the demonstration cells (d_model=10, num_heads=1, sequence length 10,
\* batch 1, one layer) the encoder's output has shape (1, 10, 10) and the
\* classifier's, with num_classes=2, has shape (1, 10, 2).
C8_DemoShapes ==
    /\ (built.cell = "encoder" /\ last.status # "none") =>
           /\ last.status = "ok"
           /\ last.output.shape = <<DemoBatch, DemoSeqLen, DemoDModel>>
    /\ (built.cell = "classifier" /\ last.status # "none") =>
           /\ last.status = "ok"
           /\ last.output.shape = <<DemoBatch, DemoSeqLen, DemoClasses>>

\* --------------------------------------------------------------------- purity
\* a forward call on the module already bound completes in this step
ForwardStep == module.kind # "none" /\ last' # last

SameResult == last'.status = last.status /\ last'.output = last.output
                  /\ last'.weights = last.weights

ClassifierReturned ==
    /\ module.kind = "classifier" /\ last.status = "ok"
    /\ Len(args.query.shape) = 3

\* C11: for an input of shape (batch_size, seq_len, d_model),
\* TransformerClassifier.forward returns an array of shape
\* (batch_size, num_classes).
C11_ClassifierShape ==
    ClassifierReturned =>
        last.output.shape = <<args.query.shape[1], module.num_classes>>

\* ------------------------------------------ properties of the layer loop
\* the term t without the dropout applied to it, if any
Strip(t) == IF t.op = "dropout" THEN t.kids[1] ELSE t

\* of the term t returned by an encoder layer: the term of the layer's input x
\* (the first operand of the first residual) and the term of the mask given
\* to its attention
LayerInputTerm(t) == t.kids[1].kids[1].kids[1].kids[1]
LayerMaskTerm(t) == Strip(Strip(t.kids[1].kids[1].kids[1].kids[2]).kids[1]).kids[3]

\* t is what layers 1..i, each applied once and in this order to the output of
\* the one before, with the mask mt, make of the input xt
RECURSIVE AppliedInOrder(_, _, _, _)
AppliedInOrder(t, i, xt, mt) ==
    IF i = 0 THEN t = xt
    ELSE /\ t.op = "norm2" /\ t.id = i
         /\ LayerMaskTerm(t) = mt
         /\ AppliedInOrder(LayerInputTerm(t), i - 1, xt, mt)

\* forward of a TransformerEncoder has returned
EncoderReturned == module.kind = "encoder" /\ last.status = "ok"

\* C12: TransformerEncoder.forward applies its layers exactly once each, in
\* list order: layer 1 receives the input, layer i the output of layer i-1,
\* every layer the caller's mask, and the value returned is the output of the
\* last layer.
C12_LayersInOrder ==
    EncoderReturned =>
        /\ last.performed = [i \in 1..Len(module.layers) |-> i]
        /\ AppliedInOrder(last.output.data[1], Len(module.layers),
                          args.query.data[1], MaskTerm(args.mask))

\* an encoder of at least two layers has returned in training mode for a
\* masked input
C12_Witness ==
    /\ EncoderReturned /\ Len(module.layers) >= 2
    /\ last.train /\ args.mask # NoMask
    /\ last.output.data[1].id = Len(module.layers)

\* ------------------------------------------ properties of the encoder layer
\* forward of an EncoderLayer has returned
LayerReturned == module.kind = "layer" /\ last.status = "ok"

\* C13: EncoderLayer.forward runs the attention with query = key = value = the
\* layer input x, normalizes x + attention output into the post-attention
\* array, feeds the post-attention array to the feed-forward transform, and
\* returns the normalization of post-attention array + feed-forward output:
\* the second residual is added to the post-attention array, not to x.
C13_LayerDataflow ==
    LayerReturned =>
        LET x == args.query.data[1]
            out == last.output.data[1]
            residual2 == out.kids[1]
            post_attention == residual2.kids[1]
            feed_forward_output == Strip(residual2.kids[2])
            residual1 == post_attention.kids[1]
            attention_output == Strip(residual1.kids[2])
            attention_weights == Strip(attention_output.kids[1])
        IN  /\ out.op = "norm2" /\ residual2.op = "add"
            /\ post_attention.op = "norm1" /\ post_attention # x
            /\ feed_forward_output.op = "feed_forward"
            /\ feed_forward_output.kids = <<post_attention>>
            /\ residual1.op = "add" /\ residual1.kids[1] = x
            /\ attention_output.op = "multihead_attention"
            /\ attention_output.kids[2] = x
            /\ attention_weights.op = "softmax"
            /\ attention_weights.kids = <<x, x, MaskTerm(args.mask)>>

\* an EncoderLayer has returned in training mode for a masked input
C13_Witness ==
    /\ LayerReturned /\ last.train /\ args.mask # NoMask
    /\ last.output.data[1].kids[1].kids[2].op = "dropout"

\* ---------------------------------------------------------------- C14
\* the weights a call returns when the product of query and key is divided
\* by the square root of d, then masked, then normalised, then dropped
WeightsScaledBy(d) ==
    Dropout(Softmax(IF args.mask = NoMask
                    THEN DivScalar(MatMul(args.query, Transpose(args.key)), Sqrt(d))
                    ELSE MaskedFill(DivScalar(MatMul(args.query, Transpose(args.key)),
                                              Sqrt(d)),
                                    args.mask)),
            last.train, last.rng0).out

\* C14 as stated: the raw scores are divided by the square root of d_k before
\* masking and before softmax, d_k being the feature dimension shared by the
\* query and key arrays of the call.
C14_ScaledByFeatureDim ==
    AttnReturned => last.weights = WeightsScaledBy(ArgDimK)

\* C14 amended: the raw scores are divided by the square root of the d_k the
\* module was constructed with, before masking and before softmax, whatever
\* the feature dimension of the query and key arrays of the call is.
C14_ScaledByConstructedDk ==
    AttnReturned => last.weights = WeightsScaledBy(module.d_k)

\* a masked call returned by a module whose d_k is not the feature dimension
\* of its arguments, with a weight that is neither 0 nor 1
C14_Witness ==
    /\ AttnReturned
    /\ args.mask # NoMask
    /\ module.d_k # ArgDimK
    /\ \E i \in 1..Len(last.weights.data) :
          /\ last.weights.data[i][2] # 0
          /\ last.weights.data[i] \notin {Zero, One}
          /\ last.weights.data[i] # WeightsScaledBy(ArgDimK).data[i]

\* ---------------------------------------------------------------- C15
\* the scores of the latest call after scaling and masking
MaskedScores ==
    IF args.mask = NoMask
    THEN DivScalar(MatMul(args.query, Transpose(args.key)), Sqrt(module.d_k))
    ELSE MaskedFill(DivScalar(MatMul(args.query, Transpose(args.key)),
                              Sqrt(module.d_k)),
                    args.mask)

\* C15: in evaluation mode the returned weights are the softmax of the scores
\* and the generator is left alone, and in every mode the returned output is
\* the matrix product of the returned weights with the value array.
C15_DropoutIdentityInEval ==
    AttnReturned =>
        /\ last.output = MatMul(last.weights, args.value)
        /\ ~last.train => /\ last.weights = Softmax(MaskedScores)
                          /\ last.output = MatMul(Softmax(MaskedScores), args.value)
                          /\ last.rng = last.rng0

\* an evaluation-mode call returned weights that are neither 0 nor 1 and an
\* output with a non-zero element
C15_Witness ==
    /\ AttnReturned
    /\ ~last.train
    /\ \E i \in 1..Len(last.weights.data) :
          last.weights.data[i][2] # 0 /\ last.weights.data[i] \notin {Zero, One}
    /\ \E i \in 1..Len(last.output.data) :
          last.output.data[i][2] # 0 /\ last.output.data[i] # Zero

\* ---------------------------------------------------------------- C16
\* the arrays of shape (batch, sequence, d_model) the latest call split into
\* heads: the projections of its arguments, and the arguments themselves
SplitInputs ==
    {Linear(args.query, module.W_q), Linear(args.key, module.W_k),
     Linear(args.value, module.W_v), args.query, args.key, args.value}

\* split_heads(x) holds x[b, s, h*d_k + j] at [b, h, s, j]
PlacedByHead(x) ==
    LET heads == SplitHeads(module, x, x.shape[1])
    IN  /\ heads.shape = <<x.shape[1], module.num_heads, x.shape[2], module.d_k>>
        /\ \A b \in 0..(x.shape[1] - 1), h \in 0..(module.num_heads - 1),
              s \in 0..(x.shape[2] - 1), j \in 0..(module.d_k - 1) :
              At(heads, <<b, h, s, j>>) = At(x, <<b, s, h * module.d_k + j>>)

\* C16: split_heads places x[b, s, h*d_k + j] at [b, h, s, j] of a (batch,
\* heads, sequence, d_k) array, and the recombination of forward (permute
\* back, merge the last two axes) applied to split_heads(x) returns x.
C16_SplitCombineRoundTrip ==
    MHACalled =>
        \A x \in SplitInputs :
            /\ PlacedByHead(x)
            /\ CombineHeads(module, SplitHeads(module, x, x.shape[1]), x.shape[1]) = x

\* a returned call with several heads of several features over several
\* positions, whose split moved elements of the projected query
C16_Witness ==
    /\ MHAReturned
    /\ module.num_heads > 1
    /\ module.d_k > 1
    /\ args.query.shape[2] > 1
    /\ SplitHeads(module, Linear(args.query, module.W_q), args.query.shape[1]).data
          # Linear(args.query, module.W_q).data

====
